---- MODULE Spec2Model ----
(***************************************************************************)
(* Raw-socket client/server exchange of BasicNetworkingTestSuite.cpp:      *)
(* setup_server, setup_client, the RAIIRawSocketInfos holder and the test  *)
(* case ClientServerRawSocketTest that runs both roles on two threads.     *)
(*                                                                         *)
(* Bytes are ASCII codes, a message is a sequence of bytes.  The transport *)
(* delivers the bytes of one send as one segment; a recv returns the       *)
(* oldest segment, cut to the length asked for.  Every socket call can     *)
(* fail.  print_addrinfo and the std::cout lines only write to the         *)
(* console and are left out.                                               *)
(***************************************************************************)
EXTENDS Integers, Sequences, FiniteSets, TLC

VARIABLES mainPc, now, srv, cli, fds, closeLog, heap, net, events, anyFail,
          peer, run, timer

vars == <<mainPc, now, srv, cli, fds, closeLog, heap, net, events, anyFail, peer,
          run, timer>>

\* ------------------------------------------------------------------ bounds
\* Largest clock value the model follows (seconds since the test started).
MaxTime == 2
\* Number of messages the arbitrary peer of SpecPeer may send.
MaxPeerSends == 2
\* Number of times SpecRepeat runs the test case, one run after the other.
MaxRuns == 2
\* Largest clock value SpecTimer follows (seconds since the timer was made).
MaxClock == 12

\* --------------------------------------------------------------- constants
\* std::array< char, 64 > buffer
BufferSize == 64
\* std::this_thread::sleep_for( std::chrono::seconds( 1 ) )
SleepSeconds == 1
\* auto backlog = 2
backlog == 2
\* ba::deadline_timer t( io, boost::posix_time::seconds( 2 ) )
TimerDelay == 2
\* t.expires_at( t.expires_at() + boost::posix_time::seconds( 1 ) )
TimerPeriod == 1
\* static int count = 5
InitialCount == 5

END_MESSAGE == <<69, 78, 68, 95, 77, 69, 83, 83, 65, 71, 69>>
HELLO == <<104, 101, 108, 108, 111>>
OK == <<79, 75>>

\* Values an uninitialised int / char may hold when it is declared.
UninitInts == {-1, 0, 1}
UninitBytes == {0, 69}

Min(a, b) == IF a < b THEN a ELSE b
Last(s) == s[Len(s)]

\* ------------------------------------------------------ RAIIRawSocketInfos
\* res( nullptr ), socketFd( -1 ), clientFd( -1 )
RAIIRawSocketInfos == [res |-> 0, socketFd |-> -1, clientFd |-> -1]

\* Faulty variants of the destructor, used to show that the release
\* properties below depend on it: one that forgets the accepted connection,
\* one that closes the listening descriptor in both statements, one that
\* closes the listening descriptor first, one that forgets the listening
\* descriptor.
DtorStepsNoClient == <<"socketFd", "res">>
DtorStepsCopyPaste == <<"socketFd", "socketFd", "res">>
DtorStepsSwapped == <<"socketFd", "clientFd", "res">>
DtorStepsNoSocket == <<"clientFd", "res">>

\* The destructor's statements, in order: the member each one releases.
DtorSteps == <<"clientFd", "socketFd", "res">>

\* if ( clientFd != -1 ) / if ( socketFd != -1 )
NeedsClose(fd) == fd # -1

\* ------------------------------------------------------- buffer handling
\* Faulty variant: recv is given the whole buffer.
RecvMaxLenWhole == BufferSize

\* recv( fd, buffer.data(), buffer.size() - 1, 0 )
RecvMaxLen == BufferSize - 1

\* A buffer of BufferSize chars is kept as the bytes from its start up to
\* the last index written so far, and the byte every later index still
\* holds from before the first write (its uninitialised content).
NewBuffer(fill) == [bytes |-> <<>>, fill |-> fill]

\* buffer[ i - 1 ]: the char at the i-th place, 1 <= i <= BufferSize.
At(buffer, i) == IF i <= Len(buffer.bytes) THEN buffer.bytes[i] ELSE buffer.fill

\* recv writes the received bytes at the start of the buffer.
Store(buffer, data) ==
    [buffer EXCEPT !.bytes = data \o SubSeq(@, Len(data) + 1, Len(@))]

\* Faulty variant: the terminating zero is not written.
TerminateMissing(buffer, bytesRead) == buffer

\* buffer[ bytesRead ] = 0   (index bytesRead, counted from 0)
Terminate(buffer, bytesRead) ==
    IF bytesRead + 1 <= Len(buffer.bytes)
    THEN [buffer EXCEPT !.bytes[bytesRead + 1] = 0]
    ELSE [buffer EXCEPT !.bytes =
              @ \o [i \in 1..(bytesRead - Len(@)) |-> buffer.fill] \o <<0>>]

\* strlen: number of chars before the first zero char.
RECURSIVE StrLen(_, _)
StrLen(buffer, i) ==
    IF i > BufferSize \/ At(buffer, i) = 0 THEN i - 1 ELSE StrLen(buffer, i + 1)

\* boost::string_ref( buffer.data() ): the C string the buffer starts with.
CString(buffer) == [i \in 1..StrLen(buffer, 1) |-> At(buffer, i)]

\* Faulty variant: buffer.data() == END_MESSAGE compares two pointers.
IsEndMessagePointers(buffer) == FALSE

\* boost::string_ref( buffer.data() ) == END_MESSAGE
IsEndMessage(buffer) == CString(buffer) = END_MESSAGE

\* while ( ( bytesRead = recv( ... ) ) > 0 )
LoopContinues(bytesRead) == bytesRead > 0

\* Faulty variant: a failed read is not reported at all.
ServerRecvFailedNever(bytesRead) == FALSE

\* Faulty variant: a read of zero bytes is reported as a failed read.
ServerRecvFailedOnZero(bytesRead) == bytesRead <= 0

\* if ( bytesRead == -1 ) throw "recv error"   (after the server's loop)
ServerRecvFailed(bytesRead) == bytesRead = -1

\* Faulty variant: the client takes an empty reply for a failed read.
ClientRecvFailedOnZero(bytesRead) == bytesRead <= 0

\* if ( ( bytesRead = recv( ... ) ) < 0 ) throw "recv error"   (client)
ClientRecvFailed(bytesRead) == bytesRead < 0

\* Faulty variant: only a negative result counts as a failed send.
SendFailedOnlyNegative(rc, len) == rc < 0

\* if ( send( ... ) != len ) throw "send error"
SendFailed(rc, len) == rc # len

\* The role record after one more of its calls that set up the connection
\* (getaddrinfo, socket, bind, listen, accept, connect) has been made.
Called(r, name) == [r EXCEPT !.calls = Append(@, name)]

\* throw std::runtime_error( what ): the exception object holds the message
\* literal and nothing else.
runtime_error(what) == [what |-> what]

\* A role record leaves its function: by an exception or by return.  Either
\* way the destructor of socketInfos runs next.
Throw(r, what) == [r EXCEPT !.thrown = runtime_error(what).what, !.pc = "dtor", !.dtor = 1]
Return(r) == [r EXCEPT !.pc = "dtor", !.dtor = 1]

\* --------------------------------------------------------- the transport
NoNet == [bound |-> 0, listener |-> 0, qlen |-> 0, state |-> "none",
          cFd |-> 0, sFd |-> 0, cEnd |-> "none", sEnd |-> "none",
          c2s |-> <<>>, s2c |-> <<>>]

\* closesocket( fd ) as the transport sees it: a listener stops listening
\* and resets a connection still waiting in its queue; an end of the
\* connection closes, abortively when received data was left unread.
NetClose(n, fd) ==
    LET n1 == IF fd = n.listener
              THEN [n EXCEPT !.listener = 0,
                             !.sEnd = IF n.state = "pending" THEN "reset" ELSE @]
              ELSE n
        n2 == IF fd = n1.cFd /\ n1.cEnd = "open"
              THEN [n1 EXCEPT !.cEnd = IF n1.s2c # <<>> THEN "reset" ELSE "closed",
                              !.s2c = <<>>]
              ELSE n1
    IN  IF fd = n2.sFd /\ n2.sEnd = "open"
        THEN [n2 EXCEPT !.sEnd = IF n2.c2s # <<>> THEN "reset" ELSE "closed",
                        !.c2s = <<>>]
        ELSE n2

\* What one recv call can give: [rc, data, rest] with rc the return value,
\* data the bytes written to the buffer and rest the segments left queued.
RecvOutcomes(queue, peerEnd, maxLen) ==
    {[rc |-> -1, data |-> <<>>, rest |-> queue]}
    \cup
    (IF queue # <<>>
     THEN LET m == Head(queue)
              k == Min(Len(m), maxLen)
          IN  {[rc |-> k, data |-> SubSeq(m, 1, k),
                rest |-> IF k < Len(m)
                         THEN <<SubSeq(m, k + 1, Len(m))>> \o Tail(queue)
                         ELSE Tail(queue)]}
     ELSE IF peerEnd = "closed"
     THEN {[rc |-> 0, data |-> <<>>, rest |-> queue]}
     ELSE {})

\* What one send call can return: all bytes, one byte short, or failure.
SendResults(len) == {len, len - 1, -1}

\* The segment a send that returned rc put on the wire.
Sent(data, rc) == IF rc > 0 THEN <<SubSeq(data, 1, rc)>> ELSE <<>>

\* One entry of a role's record of its send and recv calls.
Event(op, data, rc) == [op |-> op, data |-> data, rc |-> rc]

\* ---------------------------------------------------------------- Init
NewRole == [pc |-> "unstarted", socketInfos |-> RAIIRawSocketInfos,
            bytesRead |-> 0, buffer |-> NewBuffer(0),
            thrown |-> "", dtor |-> 0, broke |-> FALSE, wake |-> 0,
            status |-> 0, calls |-> <<>>]

\* SynchronousTimerTest once io and t are constructed: the timer is set to
\* expire TimerDelay from now, nothing waits on it, count has its initial
\* value, and main is about to call t.async_wait.
NewTimer == [pc |-> "async_wait", clock |-> 0, expires_at |-> TimerDelay,
             waits |-> 0, ready |-> 0, count |-> InitialCount,
             invocations |-> 0, rearms |-> 0]

InitCommon ==
    /\ timer = NewTimer
    /\ now = 0
    /\ fds = [next |-> 1, open |-> {}, owner |-> <<>>]
    /\ closeLog = <<>>
    /\ heap = [next |-> 1, live |-> {}]
    /\ net = NoNet
    /\ events = [server |-> <<>>, client |-> <<>>]
    /\ anyFail = FALSE
    /\ run = 1

\* ClientServerRawSocketTest is entered; no thread exists yet.
Init ==
    /\ InitCommon
    /\ mainPc = "spawn_ts"
    /\ srv = NewRole
    /\ cli = NewRole
    /\ peer = [pc |-> "absent", sends |-> 0]

\* ------------------------------------------------ operating-system calls
\* socket() / accept() hand out a descriptor never used before.
OpenFd(who) ==
    fds' = [next |-> fds.next + 1, open |-> fds.open \cup {fds.next},
            owner |-> Append(fds.owner, who)]

closesocket(fd) ==
    /\ fds' = [fds EXCEPT !.open = @ \ {fd}]
    /\ closeLog' = Append(closeLog, fd)
    /\ net' = NetClose(net, fd)

freeaddrinfo(res) == heap' = [heap EXCEPT !.live = @ \ {res}]

\* One statement of ~RAIIRawSocketInfos on the holder si.
DestructorStep(si, member) ==
    CASE member = "clientFd" ->
            /\ IF NeedsClose(si.clientFd)
               THEN closesocket(si.clientFd)
               ELSE UNCHANGED <<fds, closeLog, net>>
            /\ UNCHANGED heap
      [] member = "socketFd" ->
            /\ IF NeedsClose(si.socketFd)
               THEN closesocket(si.socketFd)
               ELSE UNCHANGED <<fds, closeLog, net>>
            /\ UNCHANGED heap
      [] member = "res" ->
            /\ IF si.res # 0
               THEN freeaddrinfo(si.res)
               ELSE UNCHANGED heap
            /\ UNCHANGED <<fds, closeLog, net>>

\* The role record after one destructor statement; the function has been
\* left once the last statement is done.
AfterDtorStep(r) ==
    IF r.dtor = Len(DtorSteps)
    THEN [r EXCEPT !.pc = "done", !.dtor = 0]
    ELSE [r EXCEPT !.dtor = @ + 1]

\* ---------------------------------------------------------- setup_server
\* Faulty variant: the status of getaddrinfo is stored and not looked at.
server_getaddrinfo_unchecked ==
    /\ srv.pc = "getaddrinfo"
    /\ \E status \in {0, 11001} :
         IF status # 0
         THEN /\ srv' = [Called(srv, "getaddrinfo") EXCEPT !.socketInfos = RAIIRawSocketInfos,
                                        !.status = status,
                                        !.pc = "socket"]
              /\ anyFail' = TRUE
              /\ UNCHANGED heap
         ELSE /\ srv' = [Called(srv, "getaddrinfo") EXCEPT !.socketInfos =
                             [RAIIRawSocketInfos EXCEPT !.res = heap.next],
                         !.status = status,
                         !.pc = "socket"]
              /\ heap' = [next |-> heap.next + 1, live |-> heap.live \cup {heap.next}]
              /\ UNCHANGED anyFail
    /\ UNCHANGED <<mainPc, now, cli, fds, closeLog, net, events, peer, run, timer>>

\* RAIIRawSocketInfos socketInfos; getaddrinfo( 0, PORT_TEST, &hints, &res )
server_getaddrinfo ==
    /\ srv.pc = "getaddrinfo"
    /\ \E status \in {0, 11001} :
         IF status # 0
         THEN /\ srv' = Throw([Called(srv, "getaddrinfo") EXCEPT !.socketInfos = RAIIRawSocketInfos,
                                        !.status = status],
                              "getaddrinfo error")
              /\ anyFail' = TRUE
              /\ UNCHANGED heap
         ELSE /\ srv' = [Called(srv, "getaddrinfo") EXCEPT !.socketInfos =
                             [RAIIRawSocketInfos EXCEPT !.res = heap.next],
                         !.status = status,
                         !.pc = "socket"]
              /\ heap' = [next |-> heap.next + 1, live |-> heap.live \cup {heap.next}]
              /\ UNCHANGED anyFail
    /\ UNCHANGED <<mainPc, now, cli, fds, closeLog, net, events, peer, run, timer>>

\* socketInfos.socketFd = socket( ... )
server_socket ==
    /\ srv.pc = "socket"
    /\ \/ /\ srv' = [Called(srv, "socket") EXCEPT !.socketInfos.socketFd = fds.next, !.pc = "bind"]
          /\ OpenFd("server")
          /\ UNCHANGED anyFail
       \/ /\ srv' = Throw([Called(srv, "socket") EXCEPT !.socketInfos.socketFd = -1], "socket error")
          /\ anyFail' = TRUE
          /\ UNCHANGED fds
    /\ UNCHANGED <<mainPc, now, cli, closeLog, heap, net, events, peer, run, timer>>

\* Faulty variant: a failed bind is tried again.
server_bind_retry ==
    /\ srv.pc = "bind"
    /\ \E rc \in {0, -1} :
         IF rc = -1
         THEN /\ srv' = Called(srv, "bind")
              /\ anyFail' = TRUE
              /\ UNCHANGED net
         ELSE /\ srv' = [Called(srv, "bind") EXCEPT !.pc = "listen"]
              /\ net' = [net EXCEPT !.bound = srv.socketInfos.socketFd]
              /\ UNCHANGED anyFail
    /\ Len(srv.calls) < 6
    /\ UNCHANGED <<mainPc, now, cli, fds, closeLog, heap, events, peer, run, timer>>

\* bind( socketInfos.socketFd, ... )
server_bind ==
    /\ srv.pc = "bind"
    /\ \E rc \in {0, -1} :
         IF rc = -1
         THEN /\ srv' = Throw(Called(srv, "bind"), "bind error")
              /\ anyFail' = TRUE
              /\ UNCHANGED net
         ELSE /\ srv' = [Called(srv, "bind") EXCEPT !.pc = "listen"]
              /\ net' = [net EXCEPT !.bound = srv.socketInfos.socketFd]
              /\ UNCHANGED anyFail
    /\ UNCHANGED <<mainPc, now, cli, fds, closeLog, heap, events, peer, run, timer>>

\* listen( socketInfos.socketFd, backlog )
server_listen ==
    /\ srv.pc = "listen"
    /\ \E rc \in {0, -1} :
         IF rc = -1
         THEN /\ srv' = Throw(Called(srv, "listen"), "listen error")
              /\ anyFail' = TRUE
              /\ UNCHANGED net
         ELSE /\ srv' = [Called(srv, "listen") EXCEPT !.pc = "accept"]
              /\ net' = [net EXCEPT !.listener = net.bound, !.qlen = backlog]
              /\ UNCHANGED anyFail
    /\ UNCHANGED <<mainPc, now, cli, fds, closeLog, heap, events, peer, run, timer>>

\* Faulty variant: an accept that finds no connection gives up after a
\* while and setup_server returns.
server_accept_timeout ==
    /\ srv.pc = "accept"
    /\ \/ /\ net.state = "pending"
          /\ net.listener = srv.socketInfos.socketFd
          /\ \E n \in UninitInts, b \in UninitBytes :
               srv' = [Called(srv, "accept") EXCEPT !.socketInfos.clientFd = fds.next,
                                  !.pc = "recv",
                                  !.bytesRead = n,
                                  !.buffer = NewBuffer(b)]
          /\ OpenFd("server")
          /\ net' = [net EXCEPT !.state = "established", !.sFd = fds.next,
                                !.sEnd = "open"]
          /\ UNCHANGED anyFail
       \/ /\ srv' = Throw([Called(srv, "accept") EXCEPT !.socketInfos.clientFd = -1], "client error")
          /\ anyFail' = TRUE
          /\ UNCHANGED <<fds, net>>
       \/ /\ net.state = "none"
          /\ srv' = Return(Called(srv, "accept"))
          /\ UNCHANGED <<fds, net, anyFail>>
    /\ UNCHANGED <<mainPc, now, cli, closeLog, heap, events, peer, run, timer>>

\* socketInfos.clientFd = accept( socketInfos.socketFd, ... ); on success
\* buffer and bytesRead are declared, both uninitialised.
server_accept ==
    /\ srv.pc = "accept"
    /\ \/ /\ net.state = "pending"
          /\ net.listener = srv.socketInfos.socketFd
          /\ \E n \in UninitInts, b \in UninitBytes :
               srv' = [Called(srv, "accept") EXCEPT !.socketInfos.clientFd = fds.next,
                                  !.pc = "recv",
                                  !.bytesRead = n,
                                  !.buffer = NewBuffer(b)]
          /\ OpenFd("server")
          /\ net' = [net EXCEPT !.state = "established", !.sFd = fds.next,
                                !.sEnd = "open"]
          /\ UNCHANGED anyFail
       \/ /\ srv' = Throw([Called(srv, "accept") EXCEPT !.socketInfos.clientFd = -1], "client error")
          /\ anyFail' = TRUE
          /\ UNCHANGED <<fds, net>>
    /\ UNCHANGED <<mainPc, now, cli, closeLog, heap, events, peer, run, timer>>

\* One pass of the loop head and body up to the send:
\*   while ( ( bytesRead = recv( clientFd, buffer, 63, 0 ) ) > 0 )
\*   { buffer[ bytesRead ] = 0; if ( buffer == END_MESSAGE ) break; ...
server_recv ==
    /\ srv.pc = "recv"
    /\ \E o \in RecvOutcomes(net.c2s, net.cEnd, RecvMaxLen) :
         LET buf == IF LoopContinues(o.rc)
                    THEN Terminate(Store(srv.buffer, o.data), o.rc)
                    ELSE srv.buffer
             r1 == [srv EXCEPT !.bytesRead = o.rc, !.buffer = buf]
         IN  /\ srv' = IF ~LoopContinues(o.rc)
                       THEN [r1 EXCEPT !.pc = "after_loop"]
                       ELSE IF IsEndMessage(buf)
                       THEN [r1 EXCEPT !.pc = "after_loop", !.broke = TRUE]
                       ELSE [r1 EXCEPT !.pc = "send"]
             /\ net' = [net EXCEPT !.c2s = o.rest]
             /\ events' = [events EXCEPT !.server = Append(@, Event("recv", o.data, o.rc))]
             /\ anyFail' = (anyFail \/ o.rc < 0)
    /\ UNCHANGED <<mainPc, now, cli, fds, closeLog, heap, peer, run, timer>>

\* Faulty variant: a failed send closes the connection by hand and the loop
\* goes on.
server_send_closes ==
    /\ srv.pc = "send"
    /\ \E rc \in SendResults(Len(OK)) :
         /\ srv' = [srv EXCEPT !.pc = "recv"]
         /\ IF SendFailed(rc, Len(OK))
            THEN closesocket(srv.socketInfos.clientFd)
            ELSE /\ net' = IF net.cEnd = "open"
                           THEN [net EXCEPT !.s2c = @ \o Sent(OK, rc)]
                           ELSE net
                 /\ UNCHANGED <<fds, closeLog>>
         /\ events' = [events EXCEPT !.server = Append(@, Event("send", OK, rc))]
         /\ anyFail' = (anyFail \/ rc # Len(OK))
    /\ UNCHANGED <<mainPc, now, cli, heap, peer, run, timer>>

\* Faulty variant: the server never answers and reads on.
server_send_silent ==
    /\ srv.pc = "send"
    /\ srv' = [srv EXCEPT !.pc = "recv"]
    /\ UNCHANGED <<mainPc, now, cli, fds, closeLog, heap, net, events, anyFail, peer, run, timer>>

\* if ( send( socketInfos.clientFd, "OK", 2, 0 ) != 2 ) throw "send error"
server_send ==
    /\ srv.pc = "send"
    /\ \E rc \in SendResults(Len(OK)) :
         /\ srv' = IF SendFailed(rc, Len(OK)) THEN Throw(srv, "send error")
                   ELSE [srv EXCEPT !.pc = "recv"]
         /\ net' = IF net.cEnd = "open"
                   THEN [net EXCEPT !.s2c = @ \o Sent(OK, rc)]
                   ELSE net
         /\ events' = [events EXCEPT !.server = Append(@, Event("send", OK, rc))]
         /\ anyFail' = (anyFail \/ rc # Len(OK))
    /\ UNCHANGED <<mainPc, now, cli, fds, closeLog, heap, peer, run, timer>>

\* if ( bytesRead == -1 ) throw "recv error"; otherwise the function returns
server_after_loop ==
    /\ srv.pc = "after_loop"
    /\ srv' = IF ServerRecvFailed(srv.bytesRead) THEN Throw(srv, "recv error")
              ELSE Return(srv)
    /\ UNCHANGED <<mainPc, now, cli, fds, closeLog, heap, net, events, anyFail, peer, run, timer>>

\* ~RAIIRawSocketInfos on the way out of setup_server
server_dtor ==
    /\ srv.pc = "dtor"
    /\ DestructorStep(srv.socketInfos, DtorSteps[srv.dtor])
    /\ srv' = AfterDtorStep(srv)
    /\ UNCHANGED <<mainPc, now, cli, events, anyFail, peer, run, timer>>

setup_server ==
    \/ server_getaddrinfo
    \/ server_socket
    \/ server_bind
    \/ server_listen
    \/ server_accept
    \/ server_recv
    \/ server_send
    \/ server_after_loop
    \/ server_dtor

\* ---------------------------------------------------------- setup_client
\* std::this_thread::sleep_for( std::chrono::seconds( 1 ) ) has elapsed
client_sleep ==
    /\ cli.pc = "sleep"
    /\ now >= cli.wake
    /\ cli' = [cli EXCEPT !.pc = "getaddrinfo"]
    /\ UNCHANGED <<mainPc, now, srv, fds, closeLog, heap, net, events, anyFail, peer, run, timer>>

\* RAIIRawSocketInfos socketInfos; getaddrinfo( 0, PORT_TEST, &hints, &res )
client_getaddrinfo ==
    /\ cli.pc = "getaddrinfo"
    /\ \E status \in {0, 11001} :
         IF status # 0
         THEN /\ cli' = Throw([Called(cli, "getaddrinfo") EXCEPT !.socketInfos = RAIIRawSocketInfos,
                                        !.status = status],
                              "getaddrinfo error")
              /\ anyFail' = TRUE
              /\ UNCHANGED heap
         ELSE /\ cli' = [Called(cli, "getaddrinfo") EXCEPT !.socketInfos =
                             [RAIIRawSocketInfos EXCEPT !.res = heap.next],
                         !.status = status,
                         !.pc = "socket"]
              /\ heap' = [next |-> heap.next + 1, live |-> heap.live \cup {heap.next}]
              /\ UNCHANGED anyFail
    /\ UNCHANGED <<mainPc, now, srv, fds, closeLog, net, events, peer, run, timer>>

\* Faulty variant: the holder is one object shared by the two functions, so
\* the client's socket lands in the server's holder as well.
client_socket_shared ==
    /\ cli.pc = "socket"
    /\ cli' = [Called(cli, "socket") EXCEPT !.socketInfos.socketFd = fds.next, !.pc = "connect"]
    /\ srv' = [srv EXCEPT !.socketInfos.socketFd = fds.next]
    /\ OpenFd("client")
    /\ UNCHANGED <<mainPc, now, closeLog, heap, net, events, anyFail, peer, run, timer>>

\* socketInfos.socketFd = socket( ... )
client_socket ==
    /\ cli.pc = "socket"
    /\ \/ /\ cli' = [Called(cli, "socket") EXCEPT !.socketInfos.socketFd = fds.next, !.pc = "connect"]
          /\ OpenFd("client")
          /\ UNCHANGED anyFail
       \/ /\ cli' = Throw([Called(cli, "socket") EXCEPT !.socketInfos.socketFd = -1], "socket error")
          /\ anyFail' = TRUE
          /\ UNCHANGED fds
    /\ UNCHANGED <<mainPc, now, srv, closeLog, heap, net, events, peer, run, timer>>

\* A connect to PORT_TEST can complete when a socket listens there and its
\* queue of connections not yet accepted has room.
CanConnect(n) ==
    /\ n.listener # 0
    /\ n.state = "none"
    /\ n.qlen > 0

\* Faulty variant: the result of connect is not looked at.
client_connect_unchecked ==
    /\ cli.pc = "connect"
    /\ cli' = [Called(cli, "connect") EXCEPT !.pc = "send_hello"]
    /\ \/ /\ CanConnect(net)
          /\ net' = [net EXCEPT !.state = "pending",
                                !.cFd = cli.socketInfos.socketFd,
                                !.cEnd = "open"]
          /\ UNCHANGED anyFail
       \/ /\ anyFail' = TRUE
          /\ UNCHANGED net
    /\ UNCHANGED <<mainPc, now, srv, fds, closeLog, heap, events, peer, run, timer>>

\* if ( connect( socketInfos.socketFd, ... ) == -1 ) throw "connect error"
client_connect ==
    /\ cli.pc = "connect"
    /\ \/ /\ CanConnect(net)
          /\ cli' = [Called(cli, "connect") EXCEPT !.pc = "send_hello"]
          /\ net' = [net EXCEPT !.state = "pending",
                                !.cFd = cli.socketInfos.socketFd,
                                !.cEnd = "open"]
          /\ UNCHANGED anyFail
       \/ /\ cli' = Throw(Called(cli, "connect"), "connect error")
          /\ anyFail' = TRUE
          /\ UNCHANGED net
    /\ UNCHANGED <<mainPc, now, srv, fds, closeLog, heap, events, peer, run, timer>>

\* A send of the client: the bytes reach the server's queue unless the
\* server's end is gone.
ClientSend(data, rc) ==
    /\ net' = IF net.sEnd \in {"none", "open"}
              THEN [net EXCEPT !.c2s = @ \o Sent(data, rc)]
              ELSE net
    /\ events' = [events EXCEPT !.client = Append(@, Event("send", data, rc))]
    /\ anyFail' = (anyFail \/ rc # Len(data))

\* if ( send( socketFd, "hello", 5, 0 ) != 5 ) throw "send error"; on
\* success buffer and bytesRead are declared, both uninitialised.
client_send_hello ==
    /\ cli.pc = "send_hello"
    /\ \E rc \in SendResults(Len(HELLO)) :
         /\ IF SendFailed(rc, Len(HELLO))
            THEN cli' = Throw(cli, "send error")
            ELSE \E n \in UninitInts, b \in UninitBytes :
                   cli' = [cli EXCEPT !.pc = "recv", !.bytesRead = n,
                                      !.buffer = NewBuffer(b)]
         /\ ClientSend(HELLO, rc)
    /\ UNCHANGED <<mainPc, now, srv, fds, closeLog, heap, peer, run, timer>>

\* if ( ( bytesRead = recv( socketFd, buffer, 63, 0 ) ) < 0 ) throw
\* "recv error"; buffer[ bytesRead ] = 0
client_recv ==
    /\ cli.pc = "recv"
    /\ \E o \in RecvOutcomes(net.s2c, net.sEnd, RecvMaxLen) :
         /\ cli' = IF ClientRecvFailed(o.rc)
                   THEN Throw([cli EXCEPT !.bytesRead = o.rc], "recv error")
                   ELSE [cli EXCEPT !.bytesRead = o.rc,
                                    !.buffer = Terminate(Store(cli.buffer, o.data), o.rc),
                                    !.pc = "send_end"]
         /\ net' = [net EXCEPT !.s2c = o.rest]
         /\ events' = [events EXCEPT !.client = Append(@, Event("recv", o.data, o.rc))]
         /\ anyFail' = (anyFail \/ o.rc < 0)
    /\ UNCHANGED <<mainPc, now, srv, fds, closeLog, heap, peer, run, timer>>

\* if ( send( socketFd, END_MESSAGE, 11, 0 ) != 11 ) throw "send error";
\* otherwise the function returns
client_send_end ==
    /\ cli.pc = "send_end"
    /\ \E rc \in SendResults(Len(END_MESSAGE)) :
         /\ cli' = IF SendFailed(rc, Len(END_MESSAGE))
                   THEN Throw(cli, "send error")
                   ELSE Return(cli)
         /\ ClientSend(END_MESSAGE, rc)
    /\ UNCHANGED <<mainPc, now, srv, fds, closeLog, heap, peer, run, timer>>

\* ~RAIIRawSocketInfos on the way out of setup_client
client_dtor ==
    /\ cli.pc = "dtor"
    /\ DestructorStep(cli.socketInfos, DtorSteps[cli.dtor])
    /\ cli' = AfterDtorStep(cli)
    /\ UNCHANGED <<mainPc, now, srv, events, anyFail, peer, run, timer>>

setup_client ==
    \/ client_getaddrinfo
    \/ client_socket
    \/ client_connect
    \/ client_send_hello
    \/ client_recv
    \/ client_send_end
    \/ client_dtor

\* ---------------------------------------------- ClientServerRawSocketTest
\* std::thread ts( [] { BOOST_CHECK_NO_THROW( setup_server() ); } )
main_spawn_ts ==
    /\ mainPc = "spawn_ts"
    /\ mainPc' = "spawn_tc"
    /\ srv' = [srv EXCEPT !.pc = "getaddrinfo"]
    /\ UNCHANGED <<now, cli, fds, closeLog, heap, net, events, anyFail, peer, run, timer>>

\* std::thread tc( [] { sleep_for( 1 s ); BOOST_CHECK_NO_THROW( setup_client() ); } )
main_spawn_tc ==
    /\ mainPc = "spawn_tc"
    /\ mainPc' = "join_ts"
    /\ cli' = [cli EXCEPT !.pc = "sleep", !.wake = now + SleepSeconds]
    /\ UNCHANGED <<now, srv, fds, closeLog, heap, net, events, anyFail, peer, run, timer>>

\* ts.join()
main_join_ts ==
    /\ mainPc = "join_ts"
    /\ srv.pc = "done"
    /\ mainPc' = "join_tc"
    /\ UNCHANGED <<now, srv, cli, fds, closeLog, heap, net, events, anyFail, peer, run, timer>>

\* tc.join()
main_join_tc ==
    /\ mainPc = "join_tc"
    /\ cli.pc = "done"
    /\ mainPc' = "done"
    /\ UNCHANGED <<now, srv, cli, fds, closeLog, heap, net, events, anyFail, peer, run, timer>>

\* The clock advances; no thread is bound to make progress meanwhile.  The
\* clock stops at MaxTime, and early enough before the client thread exists
\* for the client's sleep to elapse by then.
Tick ==
    /\ now < MaxTime
    /\ cli.pc = "unstarted" => now + SleepSeconds < MaxTime
    /\ now' = now + 1
    /\ UNCHANGED <<mainPc, srv, cli, fds, closeLog, heap, net, events, anyFail, peer, run, timer>>

Next ==
    \/ main_spawn_ts
    \/ main_spawn_tc
    \/ main_join_ts
    \/ main_join_tc
    \/ Tick
    \/ client_sleep
    \/ setup_server
    \/ setup_client

Spec == Init /\ [][Next]_vars

\* The threads of the test are scheduled fairly and time passes: main, ts
\* and tc each take their next step when it stays possible.  A socket call
\* that can complete does complete in the end; that a call fails is always
\* possible and never owed, except that a connect is answered, by the
\* listener or by a refusal.
Fairness ==
    /\ WF_vars(main_spawn_ts \/ main_spawn_tc \/ main_join_ts \/ main_join_tc)
    /\ WF_vars(Tick)
    /\ WF_vars(client_sleep)
    /\ WF_vars(client_connect)
    /\ WF_vars(setup_server /\ ~anyFail')
    /\ WF_vars(setup_client /\ ~anyFail')

SpecFair == Spec /\ Fairness

\* ------------------------------------------------ setup_server, any peer
\* setup_server run against an arbitrary remote peer instead of
\* setup_client: the peer connects once, sends any of PeerMessages, reads
\* replies and closes whenever it likes.
LongMessage == [i \in 1..(BufferSize + 2) |-> 65]

PeerMessages ==
    { HELLO,
      END_MESSAGE,
      END_MESSAGE \o <<88>>,
      END_MESSAGE \o <<0, 88>>,
      <<69, 78, 68>>,
      <<104, 101, 108, 95, 77, 69, 83, 83, 65, 71, 69>>,
      LongMessage }

InitPeer ==
    /\ InitCommon
    /\ mainPc = "peer"
    /\ srv = [NewRole EXCEPT !.pc = "getaddrinfo"]
    /\ cli = NewRole
    /\ peer = [pc |-> "idle", sends |-> 0]

peer_connect ==
    /\ peer.pc = "idle"
    /\ CanConnect(net)
    /\ peer' = [peer EXCEPT !.pc = "connected"]
    /\ net' = [net EXCEPT !.state = "pending", !.cEnd = "open"]
    /\ UNCHANGED <<mainPc, now, srv, cli, fds, closeLog, heap, events, anyFail, run, timer>>

peer_send ==
    /\ peer.pc = "connected"
    /\ peer.sends < MaxPeerSends
    /\ \E m \in PeerMessages :
         /\ net' = IF net.sEnd \in {"none", "open"}
                   THEN [net EXCEPT !.c2s = Append(@, m)]
                   ELSE net
    /\ peer' = [peer EXCEPT !.sends = @ + 1]
    /\ UNCHANGED <<mainPc, now, srv, cli, fds, closeLog, heap, events, anyFail, run, timer>>

peer_recv ==
    /\ peer.pc = "connected"
    /\ net.s2c # <<>>
    /\ net' = [net EXCEPT !.s2c = Tail(@)]
    /\ UNCHANGED <<mainPc, now, srv, cli, fds, closeLog, heap, events, anyFail, peer, run, timer>>

peer_close ==
    /\ peer.pc = "connected"
    /\ peer' = [peer EXCEPT !.pc = "closed"]
    /\ net' = [net EXCEPT !.cEnd = IF net.s2c # <<>> THEN "reset" ELSE "closed",
                          !.s2c = <<>>]
    /\ UNCHANGED <<mainPc, now, srv, cli, fds, closeLog, heap, events, anyFail, run, timer>>

NextPeer ==
    \/ setup_server
    \/ peer_connect
    \/ peer_send
    \/ peer_recv
    \/ peer_close

SpecPeer == InitPeer /\ [][NextPeer]_vars

\* ---------------------------------------------- setup_client, any server
\* setup_client run against an arbitrary remote server instead of
\* setup_server: the remote end listens, takes the connection, sends any of
\* PeerMessages, reads what arrives and closes whenever it likes.
RemoteFds == [listener |-> 101, connection |-> 102]

InitRemote ==
    /\ InitCommon
    /\ mainPc = "remote"
    /\ srv = NewRole
    /\ cli = [NewRole EXCEPT !.pc = "getaddrinfo"]
    /\ peer = [pc |-> "unbound", sends |-> 0]

remote_listen ==
    /\ peer.pc = "unbound"
    /\ peer' = [peer EXCEPT !.pc = "listening"]
    /\ net' = [net EXCEPT !.bound = RemoteFds.listener,
                          !.listener = RemoteFds.listener,
                          !.qlen = backlog]
    /\ UNCHANGED <<mainPc, now, srv, cli, fds, closeLog, heap, events, anyFail, run, timer>>

remote_accept ==
    /\ peer.pc = "listening"
    /\ net.state = "pending"
    /\ peer' = [peer EXCEPT !.pc = "accepted"]
    /\ net' = [net EXCEPT !.state = "established",
                          !.sFd = RemoteFds.connection,
                          !.sEnd = "open"]
    /\ UNCHANGED <<mainPc, now, srv, cli, fds, closeLog, heap, events, anyFail, run, timer>>

remote_send ==
    /\ peer.pc = "accepted"
    /\ peer.sends < MaxPeerSends
    /\ \E m \in PeerMessages :
         /\ net' = IF net.cEnd = "open"
                   THEN [net EXCEPT !.s2c = Append(@, m)]
                   ELSE net
    /\ peer' = [peer EXCEPT !.sends = @ + 1]
    /\ UNCHANGED <<mainPc, now, srv, cli, fds, closeLog, heap, events, anyFail, run, timer>>

remote_recv ==
    /\ peer.pc = "accepted"
    /\ net.c2s # <<>>
    /\ net' = [net EXCEPT !.c2s = Tail(@)]
    /\ UNCHANGED <<mainPc, now, srv, cli, fds, closeLog, heap, events, anyFail, peer, run, timer>>

remote_close ==
    /\ peer.pc = "accepted"
    /\ peer' = [peer EXCEPT !.pc = "closed"]
    /\ net' = NetClose(net, RemoteFds.connection)
    /\ UNCHANGED <<mainPc, now, srv, cli, fds, closeLog, heap, events, anyFail, run, timer>>

NextRemote ==
    \/ setup_client
    \/ remote_listen
    \/ remote_accept
    \/ remote_send
    \/ remote_recv
    \/ remote_close

\* Either function against an arbitrary remote end.
SpecEitherPeer == (InitPeer \/ InitRemote) /\ [][NextPeer \/ NextRemote]_vars

\* ------------------------------------------- the test case run repeatedly
\* ClientServerRawSocketTest is entered again after it has returned: new
\* threads, new holders, a new connection; descriptors and address lists
\* handed out earlier stay as the earlier run left them; the records of
\* calls and closes start anew.  The scenario is repeated for as long as no
\* socket call has failed.
main_repeat ==
    /\ mainPc = "done"
    /\ ~anyFail
    /\ run < MaxRuns
    /\ run' = run + 1
    /\ mainPc' = "spawn_ts"
    /\ now' = 0
    /\ srv' = NewRole
    /\ cli' = NewRole
    /\ net' = NoNet
    /\ events' = [server |-> <<>>, client |-> <<>>]
    /\ closeLog' = <<>>
    /\ UNCHANGED <<fds, heap, anyFail, peer, timer>>

NextRepeat ==
    \/ Next
    \/ main_repeat

SpecRepeat == Init /\ [][NextRepeat]_vars


\* --------------------------------------------------- SynchronousTimerTest
InitTimer ==
    /\ InitCommon
    /\ mainPc = "timer"
    /\ srv = NewRole
    /\ cli = NewRole
    /\ peer = [pc |-> "absent", sends |-> 0]

TimerFrame ==
    UNCHANGED <<mainPc, now, srv, cli, fds, closeLog, heap, net, events, anyFail,
                peer, run>>

\* t.expires_at( time ): the waits pending on the timer are cancelled, their
\* handlers become ready to run, and the timer gets its new expiry.
expires_at(t, time) ==
    [t EXCEPT !.expires_at = time, !.ready = @ + t.waits, !.waits = 0]

\* t.async_wait( timerTicker ): one more wait is pending on the timer.
async_wait(t) == [t EXCEPT !.waits = @ + 1]

\* Faulty variant: the counter is decremented before it is tested.
RearmsPreDecrement(count) == count - 1 > 0

\* if ( count-- > 0 ): the test sees the value before the decrement.
Rearms(count) == count > 0

\* t.async_wait( timerTicker ); in the test body, then io.run() is entered.
main_async_wait ==
    /\ timer.pc = "async_wait"
    /\ timer' = [async_wait(timer) EXCEPT !.pc = "run"]
    /\ TimerFrame

\* io.run(): the expiry time has come, the waits pending on the timer
\* complete and their handlers become ready to run.
io_run_expire ==
    /\ timer.pc = "run"
    /\ timer.waits > 0
    /\ timer.clock >= timer.expires_at
    /\ timer' = [timer EXCEPT !.ready = @ + timer.waits, !.waits = 0]
    /\ TimerFrame

\* io.run() invokes one ready handler: the body of timerTicker.
timerTicker ==
    /\ timer.pc = "run"
    /\ timer.ready > 0
    /\ LET t0 == [timer EXCEPT !.ready = @ - 1,
                               !.invocations = @ + 1,
                               !.count = @ - 1]
       IN  timer' = IF Rearms(timer.count)
                    THEN [async_wait(expires_at(t0, t0.expires_at + TimerPeriod))
                              EXCEPT !.rearms = @ + 1]
                    ELSE t0
    /\ TimerFrame

\* io.run() returns when no wait is pending and no handler is ready.
io_run_return ==
    /\ timer.pc = "run"
    /\ timer.waits = 0
    /\ timer.ready = 0
    /\ timer' = [timer EXCEPT !.pc = "returned"]
    /\ TimerFrame

\* A second passes.
TimerTick ==
    /\ timer.clock < MaxClock
    /\ timer' = [timer EXCEPT !.clock = @ + 1]
    /\ TimerFrame

NextTimer ==
    \/ main_async_wait
    \/ io_run_expire
    \/ timerTicker
    \/ io_run_return
    \/ TimerTick

\* The one thread of the test keeps running and time passes.
SpecTimer ==
    /\ InitTimer
    /\ [][NextTimer]_vars
    /\ WF_vars(main_async_wait \/ io_run_expire \/ timerTicker \/ io_run_return)
    /\ WF_vars(TimerTick)

\* ===================================================== properties
Left(r) == r.pc \in {"dtor", "done"}

\* The descriptors a role was handed that are still open.
OpenOf(who) == {fd \in fds.open : fds.owner[fd] = who}

Closed(fd) == \E i \in DOMAIN closeLog : closeLog[i] = fd

ServerRecvs == {i \in DOMAIN events.server : events.server[i].op = "recv"}
ServerSends == {i \in DOMAIN events.server : events.server[i].op = "send"}

\* C1: when no socket call fails (so the server was listening when the
\* client connected), the client sends "hello", gets "OK", sends
\* "END_MESSAGE"; the server receives "hello", answers "OK", receives the
\* sentinel, leaves its loop by the break and sends nothing more; neither
\* role throws.
C1_EndToEnd ==
    (srv.pc = "done" /\ cli.pc = "done" /\ ~anyFail) =>
        /\ srv.thrown = ""
        /\ cli.thrown = ""
        /\ srv.broke
        /\ events.client = << Event("send", HELLO, 5), Event("recv", OK, 2),
                              Event("send", END_MESSAGE, 11) >>
        /\ events.server = << Event("recv", HELLO, 5), Event("send", OK, 2),
                              Event("recv", END_MESSAGE, 11) >>

C1_Witness ==
    /\ mainPc = "done"
    /\ ~anyFail
    /\ srv.thrown = "" /\ cli.thrown = ""
    /\ Len(events.server) = 3

\* C2, as claimed: whenever the client has called connect, the server has
\* completed bind and listen.
ClientCalledConnect ==
    \/ cli.pc \in {"send_hello", "recv", "send_end"}
    \/ Left(cli) /\ cli.thrown \notin {"getaddrinfo error", "socket error"}

ServerListenDone ==
    \/ srv.pc \in {"accept", "recv", "send", "after_loop"}
    \/ Left(srv) /\ srv.thrown \notin {"getaddrinfo error", "socket error",
                                        "bind error", "listen error"}

C2_ConnectAfterListen == ClientCalledConnect => ServerListenDone

\* C3: when setup_server has been left, by return or by any of its throws,
\* no descriptor handed to the server is open and its address list is freed.
C3_ServerReleasesAll ==
    srv.pc = "done" =>
        /\ OpenOf("server") = {}
        /\ srv.socketInfos.res \notin heap.live

C3_Witness ==
    /\ srv.pc = "done"
    /\ srv.thrown = "send error"
    /\ Closed(srv.socketInfos.socketFd)
    /\ Closed(srv.socketInfos.clientFd)
    /\ srv.socketInfos.res # 0

\* C4: a connect called while nothing listens on the port makes the client
\* throw "connect error", and once the client has left with that error the
\* descriptor it created is closed.
C4_ConnectRefusedNoLeak ==
    /\ [][(cli.pc = "connect" /\ cli'.pc # "connect" /\ net.listener = 0)
              => (cli'.thrown = "connect error" /\ cli'.pc = "dtor")]_vars
    /\ []((cli.pc = "done" /\ cli.thrown = "connect error")
              => (OpenOf("client") = {} /\ Closed(cli.socketInfos.socketFd)))

C4_Witness ==
    /\ cli.pc = "done"
    /\ cli.thrown = "connect error"
    /\ srv.pc \in {"getaddrinfo", "socket", "bind", "listen"}
    /\ Closed(cli.socketInfos.socketFd)
    /\ fds.open \subseteq {srv.socketInfos.socketFd}

\* C5: when the first thing the server receives is the sentinel, that read
\* is its only send or recv call: it leaves the loop by the break and has
\* sent no "OK", up to and after its return.
C5_FirstSentinelNoOk ==
    (events.server # <<>> /\ events.server[1] = Event("recv", END_MESSAGE, 11)) =>
        /\ Len(events.server) = 1
        /\ srv.broke
        /\ srv.pc \in {"after_loop", "dtor", "done"}
        /\ srv.thrown = ""

C5_Witness ==
    /\ srv.pc = "done"
    /\ events.server = << Event("recv", END_MESSAGE, 11) >>
    /\ srv.thrown = ""

\* C6: when the server's last recv returned zero (the peer closed without
\* the sentinel having been received), the loop has ended and the server
\* throws nothing: it is on its way out or has returned normally.
C6_ZeroReadIsNormal ==
    (events.server # <<>> /\ Last(events.server) = Event("recv", <<>>, 0)) =>
        /\ srv.pc \in {"after_loop", "dtor", "done"}
        /\ srv.thrown = ""
        /\ ~srv.broke

C6_Witness ==
    /\ srv.pc = "done"
    /\ peer.pc = "closed"
    /\ events.server = << Event("recv", HELLO, 5), Event("send", OK, 2),
                          Event("recv", <<>>, 0) >>
    /\ srv.thrown = ""

\* C7, as claimed: a read of one or more bytes ends the loop by the break
\* exactly when the bytes read are the 11 bytes of END_MESSAGE.
C7_SentinelIffExactBytes ==
    \A i \in ServerRecvs :
        events.server[i].rc > 0 =>
            ((i = Len(events.server) /\ srv.broke)
                 <=> events.server[i].data = END_MESSAGE)

\* C8, as claimed: the "OK" sends attempted (counting the one the server is
\* about to make) are as many as the reads of one or more bytes other than
\* the sentinel.
C8_OneOkPerNonSentinel ==
    Cardinality(ServerSends) + (IF srv.pc = "send" THEN 1 ELSE 0)
        = Cardinality({i \in ServerRecvs :
                          /\ events.server[i].rc > 0
                          /\ events.server[i].data # END_MESSAGE})

C10_AcceptedClosedFirst ==
    (srv.socketInfos.clientFd # -1 /\ Closed(srv.socketInfos.socketFd)) =>
        \E i, j \in DOMAIN closeLog :
            /\ closeLog[i] = srv.socketInfos.clientFd
            /\ closeLog[j] = srv.socketInfos.socketFd
            /\ i < j

C10_Witness ==
    /\ srv.thrown = "recv error"
    /\ srv.socketInfos.clientFd # -1
    /\ Closed(srv.socketInfos.clientFd)
    /\ Closed(srv.socketInfos.socketFd)

\* C11: every socket call a role is about to make is on a descriptor that
\* is still open: bind, listen and accept on the listening descriptor, the
\* server's recv and send on the accepted one, the client's connect, send
\* and recv on its own.
C11_NoUseAfterRelease ==
    /\ srv.pc \in {"bind", "listen", "accept"} => srv.socketInfos.socketFd \in fds.open
    /\ srv.pc \in {"recv", "send"} => srv.socketInfos.clientFd \in fds.open
    /\ cli.pc \in {"connect", "send_hello", "recv", "send_end"}
           => cli.socketInfos.socketFd \in fds.open

C11_Witness ==
    /\ srv.pc = "recv"
    /\ cli.pc = "done"
    /\ Closed(cli.socketInfos.socketFd)
    /\ events.server # <<>>

\* C12: a send that returned anything but the full length is the last send
\* or recv call of its role, which has left with "send error".
ShortSendIsLast(r, log) ==
    \A i \in DOMAIN log :
        (log[i].op = "send" /\ log[i].rc # Len(log[i].data)) =>
            /\ i = Len(log)
            /\ r.thrown = "send error"
            /\ Left(r)

C12_ShortSendFatal ==
    /\ ShortSendIsLast(srv, events.server)
    /\ ShortSendIsLast(cli, events.client)

C12_Witness ==
    /\ cli.pc = "done"
    /\ cli.thrown = "send error"
    /\ Len(events.client) = 3
    /\ events.client[3] = Event("send", END_MESSAGE, 10)

\* The accept of setup_server succeeded, so its loop was entered.
LoopEntered == srv.socketInfos.clientFd # -1

EndedBySentinel == srv.broke /\ srv.thrown = ""

EndedByShutdown ==
    ~srv.broke /\ Last(events.server) = Event("recv", <<>>, 0) /\ srv.thrown = ""

EndedByFailedRead ==
    ~srv.broke /\ Last(events.server) = Event("recv", <<>>, -1)
               /\ srv.thrown = "recv error"

EndedByFailedSend ==
    /\ ~srv.broke
    /\ Last(events.server).op = "send"
    /\ Last(events.server).rc # Len(OK)
    /\ srv.thrown = "send error"

\* C13, as claimed: a server that entered its loop has left in one of three
\* ways: sentinel and normal return, zero-length read and normal return,
\* failed read and "recv error".
C13_ThreeEndings ==
    (srv.pc = "done" /\ LoopEntered) =>
        (EndedBySentinel \/ EndedByShutdown \/ EndedByFailedRead)

\* C13, amended: there is a fourth way, a failed or short send of "OK" and
\* "send error"; the four exclude one another.
C13_FourEndings ==
    (srv.pc = "done" /\ LoopEntered) =>
        /\ EndedBySentinel \/ EndedByShutdown \/ EndedByFailedRead \/ EndedByFailedSend
        /\ Cardinality({w \in {"sentinel", "shutdown", "read", "send"} :
               \/ w = "sentinel" /\ EndedBySentinel
               \/ w = "shutdown" /\ EndedByShutdown
               \/ w = "read" /\ EndedByFailedRead
               \/ w = "send" /\ EndedByFailedSend}) = 1

C13_Witness ==
    /\ srv.pc = "done"
    /\ LoopEntered
    /\ EndedByFailedSend
    /\ Len(events.server) = 4

\* C14: in every run of the repeated scenario, the first and the later ones
\* alike, a run in which no socket call failed ends with the exchange of C1,
\* and when the run is over no descriptor is open and no address list is
\* allocated, as before the first run.
C14_RepeatedRuns ==
    (mainPc = "done" /\ ~anyFail) =>
        /\ srv.thrown = "" /\ cli.thrown = ""
        /\ events.client = << Event("send", HELLO, 5), Event("recv", OK, 2),
                              Event("send", END_MESSAGE, 11) >>
        /\ events.server = << Event("recv", HELLO, 5), Event("send", OK, 2),
                              Event("recv", END_MESSAGE, 11) >>
        /\ fds.open = {}
        /\ heap.live = {}

C14_Witness ==
    /\ run = MaxRuns
    /\ run > 1
    /\ mainPc = "done"
    /\ ~anyFail
    /\ fds.open = {}
    /\ Len(events.server) = 3

\* The step a message literal names: the word before " error".
StepNamedBy(what) ==
    CASE what = "getaddrinfo error" -> "getaddrinfo"
      [] what = "socket error" -> "socket"
      [] what = "bind error" -> "bind"
      [] what = "listen error" -> "listen"
      [] what = "client error" -> "client"
      [] what = "connect error" -> "connect"
      [] what = "recv error" -> "recv"
      [] what = "send error" -> "send"

\* The call a role made last before it threw.
FailedStep(r, log) ==
    IF r.thrown \in {"recv error", "send error"} THEN Last(log).op ELSE Last(r.calls)

ErrorCarriesStepAndStatus(r, log) ==
    r.thrown # "" =>
        /\ StepNamedBy(runtime_error(r.thrown).what) = FailedStep(r, log)
        /\ r.thrown = "getaddrinfo error" =>
               /\ "status" \in DOMAIN runtime_error(r.thrown)
               /\ runtime_error(r.thrown).status = r.status

\* C15, as claimed: the exception a role has thrown names the call that
\* failed and carries the OS status; the one for a failed getaddrinfo
\* carries the status getaddrinfo returned.
C15_ErrorCarriesStepAndStatus ==
    /\ ErrorCarriesStepAndStatus(srv, events.server)
    /\ ErrorCarriesStepAndStatus(cli, events.client)

\* The descriptors a role's holder refers to.
HeldBy(r) == {r.socketInfos.socketFd, r.socketInfos.clientFd} \ {-1}

IsPrefix(s, t) == Len(s) <= Len(t) /\ \A i \in DOMAIN s : s[i] = t[i]

ServerSteps == <<"getaddrinfo", "socket", "bind", "listen", "accept">>
ClientSteps == <<"getaddrinfo", "socket", "connect">>

\* C17: the calls a role has made to set up its connection are a prefix of
\* the fixed list, so each was made at most once and in order; a role that
\* threw has left and calls nothing more; the server is in its loop or has
\* recorded a recv or send only after all five calls and a successful
\* accept, whose descriptor differs from the listening one.
C17_FixedOrderNoRetry ==
    /\ IsPrefix(srv.calls, ServerSteps)
    /\ IsPrefix(cli.calls, ClientSteps)
    /\ srv.thrown # "" => Left(srv)
    /\ cli.thrown # "" => Left(cli)
    /\ (events.server # <<>> \/ srv.pc \in {"recv", "send", "after_loop"}) =>
           (srv.calls = ServerSteps /\ LoopEntered)
    /\ LoopEntered => srv.socketInfos.clientFd # srv.socketInfos.socketFd

C17_Witness ==
    /\ srv.pc = "done"
    /\ cli.pc = "done"
    /\ srv.calls = ServerSteps
    /\ cli.calls = ClientSteps
    /\ LoopEntered
    /\ events.server # <<>>

\* C18: under fair scheduling every run of the test in which no socket call
\* fails (the client then connected to a listening server) reaches the
\* point where both joins have completed, and at that point both roles have
\* ended and no descriptor is open.
C18_FairTermination ==
    /\ <>(anyFail \/ mainPc = "done")
    /\ []((mainPc = "done" /\ ~anyFail) =>
             /\ srv.pc = "done" /\ cli.pc = "done"
             /\ fds.open = {}
             /\ Closed(srv.socketInfos.socketFd)
             /\ Closed(srv.socketInfos.clientFd)
             /\ Closed(cli.socketInfos.socketFd))

C18_Witness ==
    /\ mainPc = "done"
    /\ ~anyFail
    /\ Len(closeLog) = 3
    /\ fds.open = {}
    /\ fds.next = 4

\* The client has ended without a connection while the server waits in
\* accept.
ClientGaveUp ==
    Left(cli) /\ cli.thrown \in {"getaddrinfo error", "socket error", "connect error"}

ServerBlockedInAccept == ClientGaveUp /\ srv.pc = "accept"

\* C19, as claimed: once the client has ended without a connection and the
\* server is in accept, the server stays in accept at every later step.
C19_BlockedForever ==
    [][ServerBlockedInAccept => ServerBlockedInAccept']_vars

\* C19, amended: the server leaves that accept only when accept itself
\* fails, and then by throwing "client error"; as long as it is blocked no
\* connection arrives, its listening descriptor stays open and the joins of
\* the test do not complete.
C19_BlockedUnlessAcceptFails ==
    /\ [][ServerBlockedInAccept =>
              \/ ServerBlockedInAccept' /\ srv' = srv
              \/ srv'.thrown = "client error" /\ srv'.pc = "dtor"]_vars
    /\ [](ServerBlockedInAccept =>
              /\ net.state = "none"
              /\ srv.socketInfos.socketFd \in fds.open
              /\ mainPc # "done")

C19_Witness ==
    /\ ServerBlockedInAccept
    /\ cli.pc = "done"
    /\ cli.thrown = "connect error"
    /\ mainPc = "join_ts"
    /\ now = MaxTime

\* C20: once the client's recv after "hello" has returned without failure,
\* whatever it delivered ("OK", part of it, or nothing because the server
\* had closed), the client throws no "recv error" and its only further call
\* is one send of "END_MESSAGE", after which it has left.
C20_ReplyNotValidated ==
    (Len(events.client) >= 2 /\ events.client[2].op = "recv"
                             /\ events.client[2].rc >= 0) =>
        /\ events.client[1] = Event("send", HELLO, 5)
        /\ cli.thrown # "recv error"
        /\ \/ cli.pc = "send_end" /\ Len(events.client) = 2
           \/ /\ Left(cli)
              /\ Len(events.client) = 3
              /\ events.client[3].op = "send"
              /\ events.client[3].data = END_MESSAGE

C20_Witness ==
    /\ cli.pc = "done"
    /\ cli.thrown = ""
    /\ Len(events.client) = 3
    /\ events.client[2].op = "recv"
    /\ events.client[2].rc \in {0, 1}
    /\ events.client[2].data # OK
    /\ events.client[3] = Event("send", END_MESSAGE, 11)

\* C21: every write to a receive buffer stays inside its 64 chars; a role
\* that is past a successful receive (the server about to answer or out of
\* the loop by the break, the client about to send the sentinel) has a
\* received length between 0 and 63, the received bytes at the start of
\* the buffer and a zero right after them; a recv that failed, and the
\* server's zero-length read, leave the buffer as it was.
PastReceive(r, log) ==
    /\ r.bytesRead \in 0..(BufferSize - 1)
    /\ Last(log) = Event("recv", SubSeq(r.buffer.bytes, 1, r.bytesRead), r.bytesRead)
    /\ At(r.buffer, r.bytesRead + 1) = 0

C21_TerminatorInsideBuffer ==
    /\ [](/\ Len(srv.buffer.bytes) <= BufferSize
          /\ Len(cli.buffer.bytes) <= BufferSize
          /\ (srv.pc = "send" \/ (srv.pc = "after_loop" /\ srv.broke))
                 => PastReceive(srv, events.server)
          /\ cli.pc = "send_end" => PastReceive(cli, events.client))
    /\ [][/\ (srv.pc = "recv" /\ srv'.pc = "after_loop" /\ ~srv'.broke)
                 => (srv'.bytesRead <= 0 /\ srv'.buffer = srv.buffer)
          /\ (cli.pc = "recv" /\ cli'.thrown = "recv error")
                 => (cli'.bytesRead < 0 /\ cli'.buffer = cli.buffer)]_vars

\* A full-length read: 63 bytes stored, the zero in the last char of the
\* buffer.
ServerReadFull ==
    /\ srv.pc = "send"
    /\ srv.bytesRead = BufferSize - 1
    /\ Len(srv.buffer.bytes) = BufferSize
    /\ srv.buffer.bytes[BufferSize] = 0

C21_Witness ==
    /\ cli.pc = "send_end"
    /\ cli.bytesRead = BufferSize - 1
    /\ Len(cli.buffer.bytes) = BufferSize
    /\ cli.buffer.bytes[BufferSize] = 0

\* The role r is alone in its process and its getaddrinfo returned a
\* status other than zero: it has thrown "getaddrinfo error", getaddrinfo
\* is its only call, its holder is as constructed, and no descriptor or
\* address list was ever handed out, closed or freed.
ResolutionFailedCleanly(r, log) ==
    r.status # 0 =>
        /\ r.thrown = "getaddrinfo error"
        /\ Left(r)
        /\ r.calls = <<"getaddrinfo">>
        /\ log = <<>>
        /\ r.socketInfos = RAIIRawSocketInfos
        /\ fds = [next |-> 1, open |-> {}, owner |-> <<>>]
        /\ heap = [next |-> 1, live |-> {}]
        /\ closeLog = <<>>

\* C22: a failed address resolution makes the role throw before any socket
\* exists: no socket, bind, listen, accept or connect is called, and the
\* destructor closes no descriptor and frees no address list.
C22_ResolutionFailsFirst ==
    /\ ResolutionFailedCleanly(srv, events.server)
    /\ ResolutionFailedCleanly(cli, events.client)
    /\ srv.status # 0 => (net.bound = 0 /\ net.listener = 0)
    /\ cli.status # 0 => net.state = "none"

ClientResolutionFailed ==
    /\ cli.pc = "done"
    /\ cli.status # 0
    /\ cli.thrown = "getaddrinfo error"
    /\ peer.pc = "listening"

C22_Witness ==
    /\ srv.pc = "done"
    /\ srv.status # 0
    /\ srv.thrown = "getaddrinfo error"
    /\ peer.pc = "idle"

\* C23: the handler re-arms the timer while the counter, which starts at 5
\* and goes down by one on every invocation, was positive: 5 times; at most
\* one wait is pending or ready at any moment; io.run() has returned only
\* after the sixth invocation, which re-armed nothing, and it does return.
C23_TimerRunsSixTimes ==
    /\ [](/\ timer.waits + timer.ready <= 1
          /\ timer.count = InitialCount - timer.invocations
          /\ timer.rearms = Min(timer.invocations, 5)
          /\ timer.invocations <= 6
          /\ timer.pc = "returned" =>
                 /\ timer.invocations = 6
                 /\ timer.rearms = 5
                 /\ timer.waits = 0 /\ timer.ready = 0)
    /\ [][timer'.invocations = 6 /\ timer.invocations = 5 => timer'.waits = 0]_vars
    /\ <>(timer.pc = "returned")

C23_Witness ==
    /\ timer.pc = "returned"
    /\ timer.invocations = 6
    /\ timer.rearms = 5
    /\ timer.expires_at = TimerDelay + 5 * TimerPeriod
    /\ timer.clock = timer.expires_at

====
